---- MODULE Spec2Model ----
(***************************************************************************)
(* A model of uhttp_response_header (src/src/lib.rs): HeaderLines and      *)
(* HeaderLine, two scope-bound wrappers around a byte sink (any            *)
(* std::io::Write).  The sink is the environment: each write call accepts  *)
(* some prefix of its buffer or fails, each flush succeeds or fails.  The  *)
(* caller is any program the signatures admit: it creates a block, takes   *)
(* lines, writes and flushes through them, leaves the scopes at any point, *)
(* and writes the body afterwards.                                         *)
(***************************************************************************)
EXTENDS Naturals, Sequences, FiniteSets

VARIABLES
    sink,   \* the bytes the sink has accepted so far, in order
    ops,    \* every call made on the sink so far: who made it, what, with what result
    block,  \* the HeaderLines value: "none" (not created), "live", "dropped"
    lines,  \* one record per HeaderLine created so far, in creation order
    base,   \* the sink's bytes when HeaderLines::new was called
    body,   \* the bytes accepted from the caller's direct writes after the block ended
    ret,    \* what the last operation handed back to the caller
    last    \* the last operation: its name, line, argument, and sink/ops before it

vars == <<sink, ops, block, lines, base, body, ret, last>>

\* ---------------------------------------------------------------- bounds

\* HeaderLine values created in one run (from the block or directly).
MaxLines == 2
\* Calls made on the sink in one run (writes and flushes, by anyone).
MaxOps == 4

\* ------------------------------------------------------------------ data

\* The line terminator b"\r\n" that HeaderLine's drop writes.
CRLF == <<13, 10>>

\* The buffers a caller hands to write: one byte, and two bytes of which
\* the second is a bare LF (the code does not look at the content).
Bufs == { <<65>>, <<66, 10>> }

Ok(n) == [kind |-> "Ok", n |-> n]
Err == [kind |-> "Err", n |-> 0]
Unit == [kind |-> "Unit", n |-> 0]
Panic == [kind |-> "Panic", n |-> 0]

\* What a call of Write::write on `buf` may return: Ok(k) for any k up to
\* the buffer's length (a short write is legal), or an error.
WriteOutcomes(buf) == { Ok(k) : k \in 0..Len(buf) } \cup { Err }

\* What a call of Write::flush may return.
FlushOutcomes == { Ok(0), Err }

\* The bytes of `buf` the sink took when it answered `r`.
Accepted(buf, r) == IF r.kind = "Ok" THEN SubSeq(buf, 1, r.n) ELSE <<>>

\* -------------------------------------------------------------- the sink

\* One call of the sink's Write::write with `buf`, answered `r`.  `by` is the
\* entry point the call was made from and `id` the line it was made through
\* (0: none).  The sink keeps the accepted prefix; the call is logged.
Write_write(s, by, id, buf, r) ==
    [sink |-> s.sink \o Accepted(buf, r),
     ops  |-> Append(s.ops, [by |-> by, line |-> id, op |-> "write",
                             buf |-> buf, res |-> r]),
     ret  |-> r]

\* One call of the sink's Write::flush, answered `f`.
Write_flush(s, by, id, f) ==
    [sink |-> s.sink,
     ops  |-> Append(s.ops, [by |-> by, line |-> id, op |-> "flush",
                             buf |-> <<>>, res |-> f]),
     ret  |-> f]

\* ------------------------------------------------------------ HeaderLine

\* A variant of HeaderLine::write that hides the sink's failure from the
\* caller (reports "nothing written" instead of the error).
HeaderLine_write_swallowing(s, by, id, buf, r) ==
    LET w == Write_write(s, by, id, buf, r)
    IN  [sink |-> w.sink, ops |-> w.ops,
         ret |-> IF r.kind = "Err" THEN Ok(0) ELSE r]

\* impl Write for HeaderLine: fn write(&mut self, buf) { self.0.write(buf) }
HeaderLine_write(s, by, id, buf, r) == Write_write(s, by, id, buf, r)

\* impl Write for HeaderLine: fn flush(&mut self) { self.0.flush() }
HeaderLine_flush(s, by, id, f) == Write_flush(s, by, id, f)

\* A variant that unwraps the result instead: an error becomes a panic.
is_ok_unwrapped(res) == IF res.kind = "Err" THEN Panic ELSE Unit

\* `<result>.is_ok();` as a statement: the io::Result becomes a bool that is
\* thrown away; nothing of it reaches the caller.
is_ok_discarded(res) == Unit

\* A variant of HeaderLine's drop written with write_all: after a short write
\* the rest of the terminator is written again (and then taken whole).
HeaderLine_drop_write_all(s, by, id, r) ==
    LET w == HeaderLine_write(s, by, id, CRLF, r)
        rest == SubSeq(CRLF, r.n + 1, Len(CRLF))
        again == HeaderLine_write(w, by, id, rest, Ok(Len(rest)))
    IN  IF r.kind = "Ok" /\ r.n < Len(CRLF)
        THEN [sink |-> again.sink, ops |-> again.ops, ret |-> Unit]
        ELSE [sink |-> w.sink, ops |-> w.ops, ret |-> Unit]

\* A variant of HeaderLine with no Drop impl: leaving the scope writes nothing.
HeaderLine_drop_missing(s, by, id, r) ==
    [sink |-> s.sink, ops |-> s.ops, ret |-> Unit]

\* impl Drop for HeaderLine: fn drop(&mut self) { self.write(&b"\r\n"[..]).is_ok(); }
HeaderLine_drop(s, by, id, r) ==
    LET w == HeaderLine_write(s, by, id, CRLF, r)
    IN  [sink |-> w.sink, ops |-> w.ops, ret |-> is_ok_discarded(w.ret)]

\* ----------------------------------------------------------- HeaderLines

\* HeaderLines::new(sink) -> Self { HeaderLines(sink) }: wraps, calls nothing.
HeaderLines_new(s) == [sink |-> s.sink, ops |-> s.ops, ret |-> Unit]

\* A variant of HeaderLines::line that flushes the sink before lending it.
HeaderLines_line_flushing(s) ==
    LET fl == Write_flush(s, "HeaderLines::line", 0, Ok(0))
    IN  [sink |-> fl.sink, ops |-> fl.ops, ret |-> Unit]

\* HeaderLines::line(&mut self) -> HeaderLine<&mut W> { HeaderLine(&mut self.0) }:
\* wraps a reborrow, calls nothing on the sink.
HeaderLines_line(s) == [sink |-> s.sink, ops |-> s.ops, ret |-> Unit]

\* A variant of HeaderLines' drop that gives up when the blank line's write
\* failed, and so flushes only after a successful write.
HeaderLines_drop_early_return(s, r, f) ==
    LET d == HeaderLine_write(s, "HeaderLines::drop", 0, CRLF, r)
        fl == Write_flush(d, "HeaderLines::drop", 0, f)
    IN  IF r.kind = "Err"
        THEN [sink |-> d.sink, ops |-> d.ops, ret |-> Unit]
        ELSE [sink |-> fl.sink, ops |-> fl.ops, ret |-> Unit]

\* impl Drop for HeaderLines: self.line(); self.0.flush().is_ok();
\* The temporary HeaderLine of the first statement is dropped at its
\* semicolon; a panic there would unwind past the flush.
HeaderLines_drop(s, r, f) ==
    LET l == HeaderLines_line(s)
        d == HeaderLine_drop(l, "HeaderLines::drop", 0, r)
        fl == Write_flush(d, "HeaderLines::drop", 0, f)
    IN  IF d.ret = Panic
        THEN d
        ELSE [sink |-> fl.sink, ops |-> fl.ops, ret |-> is_ok_discarded(fl.ret)]

\* The borrow that line(&mut self) -> HeaderLine<&mut W> takes: while a
\* HeaderLine is alive the block (and the sink) is mutably borrowed, so no
\* other line can be taken and the block cannot end.
LiveLines == { i \in DOMAIN lines : lines[i].live }

\* A variant in which line() took &self and handed out a shared handle: a
\* live line would block nothing.
shared_borrow == TRUE

mut_borrow_free == LiveLines = {}

\* ------------------------------------------------------------ the caller

Here == [sink |-> sink, ops |-> ops]

\* Room in the run for `n` more calls on the sink.
Room(n) == Len(ops) + n <= MaxOps

\* The outcome `o` of operation `name` becomes the new state.
Becomes(o, name, id, buf) ==
    /\ sink' = o.sink
    /\ ops' = o.ops
    /\ ret' = o.ret
    /\ last' = [op |-> name, line |-> id, buf |-> buf,
                sink |-> sink, nops |-> Len(ops)]

NewLineRecord(parent) ==
    [parent |-> parent, start |-> sink, content |-> <<>>, live |-> TRUE]

Init ==
    /\ sink = <<>>
    /\ ops = <<>>
    /\ block = "none"
    /\ lines = <<>>
    /\ base = <<>>
    /\ body = <<>>
    /\ ret = Unit
    /\ last = [op |-> "init", line |-> 0, buf |-> <<>>, sink |-> <<>>, nops |-> 0]

\* let mut h = HeaderLines::new(&mut sink);
CallNew ==
    /\ block = "none"
    /\ mut_borrow_free
    /\ block' = "live"
    /\ base' = sink
    /\ Becomes(HeaderLines_new(Here), "HeaderLines::new", 0, <<>>)
    /\ UNCHANGED <<lines, body>>

\* h.line()
CallLine ==
    /\ block = "live"
    /\ mut_borrow_free
    /\ Len(lines) < MaxLines
    /\ lines' = Append(lines, NewLineRecord("block"))
    /\ Becomes(HeaderLines_line(Here), "HeaderLines::line", Len(lines) + 1, <<>>)
    /\ UNCHANGED <<block, base, body>>

\* HeaderLine(&mut sink): a line on its own, as test_header_line builds it.
DirectLine ==
    /\ block = "none"
    /\ mut_borrow_free
    /\ Len(lines) < MaxLines
    /\ lines' = Append(lines, NewLineRecord("direct"))
    /\ Becomes([sink |-> sink, ops |-> ops, ret |-> Unit], "HeaderLine", Len(lines) + 1, <<>>)
    /\ UNCHANGED <<block, base, body>>

\* line.write(buf), called by the caller on a live line.
LineWrite ==
    /\ Room(1)
    /\ \E id \in LiveLines, buf \in Bufs :
        \E r \in WriteOutcomes(buf) :
            /\ Becomes(HeaderLine_write(Here, "HeaderLine::write", id, buf, r),
                       "HeaderLine::write", id, buf)
            /\ lines' = [lines EXCEPT ![id].content = @ \o Accepted(buf, r)]
    /\ UNCHANGED <<block, base, body>>

\* line.flush(), called by the caller on a live line.
LineFlush ==
    /\ Room(1)
    /\ \E id \in LiveLines, f \in FlushOutcomes :
        Becomes(HeaderLine_flush(Here, "HeaderLine::flush", id, f),
                "HeaderLine::flush", id, <<>>)
    /\ UNCHANGED <<block, lines, base, body>>

\* A live line's scope ends: by its normal end, an early return or an unwind,
\* after any number of writes, whatever the last one returned.
LineExit ==
    /\ Room(1)
    /\ \E id \in LiveLines, r \in WriteOutcomes(CRLF) :
        /\ Becomes(HeaderLine_drop(Here, "HeaderLine::drop", id, r),
                   "HeaderLine::drop", id, <<>>)
        /\ lines' = [lines EXCEPT ![id].live = FALSE]
    /\ UNCHANGED <<block, base, body>>

\* The block's scope ends, by any exit path.
BlockExit ==
    /\ block = "live"
    /\ mut_borrow_free
    /\ Room(2)
    /\ block' = "dropped"
    /\ \E r \in WriteOutcomes(CRLF), f \in FlushOutcomes :
        Becomes(HeaderLines_drop(Here, r, f), "HeaderLines::drop", 0, <<>>)
    /\ UNCHANGED <<lines, base, body>>

\* After the block has ended the caller writes the body straight to the sink.
BodyWrite ==
    /\ block = "dropped"
    /\ Room(1)
    /\ \E buf \in Bufs :
        \E r \in WriteOutcomes(buf) :
            /\ Becomes(Write_write(Here, "caller", 0, buf, r), "body", 0, buf)
            /\ body' = body \o Accepted(buf, r)
    /\ UNCHANGED <<block, lines, base>>

Next ==
    \/ CallNew
    \/ CallLine
    \/ DirectLine
    \/ LineWrite
    \/ LineFlush
    \/ LineExit
    \/ BlockExit
    \/ BodyWrite

Spec == Init /\ [][Next]_vars

\* ---------------------------------------------------------------- claims

\* The calls the last operation made on the sink.
Suffix == SubSeq(ops, last.nops + 1, Len(ops))

\* The bytes the sink has accepted over its first n logged calls.
RECURSIVE SinkAfter(_)
SinkAfter(n) ==
    IF n = 0 THEN <<>>
    ELSE SinkAfter(n - 1) \o Accepted(ops[n].buf, ops[n].res)

\* The lines taken from the block, in order, and their wire form
\* s1 CRLF s2 CRLF ... sn CRLF.
BlockLines == SelectSeq(lines, LAMBDA l : l.parent = "block")

RECURSIVE Joined(_)
Joined(ls) ==
    IF ls = <<>> THEN <<>>
    ELSE Head(ls).content \o CRLF \o Joined(Tail(ls))

\* The calls in the log that `by` made through line `id` to write the terminator.
TermWrites(by, id) ==
    { i \in DOMAIN ops : /\ ops[i].by = by
                         /\ ops[i].line = id
                         /\ ops[i].op = "write"
                         /\ ops[i].buf = CRLF }

\* The logged call with which the block's drop wrote its blank line.
BlankLineIndex ==
    CHOOSE i \in DOMAIN ops : ops[i].by = "HeaderLines::drop" /\ ops[i].op = "write"

\* C1: once the block scope has ended, the sink holds exactly the lines
\* delivered through the block, each followed by CRLF, and one more CRLF
\* (for no lines: exactly one CRLF).
C1_BlockOutput ==
    last.op = "HeaderLines::drop" =>
        sink = base \o Joined(BlockLines) \o CRLF

\* C2: once a line scope has ended, the sink holds exactly what it held when
\* the line began, the bytes delivered into the line, and one CRLF.
C2_LineOutput ==
    last.op = "HeaderLine::drop" =>
        sink = lines[last.line].start \o lines[last.line].content \o CRLF

C4_TeardownSilent ==
    last.op \in {"HeaderLine::drop", "HeaderLines::drop"} => ret = Unit

\* The block ended with both its blank-line write and its flush failing,
\* after a line whose terminator write failed too.
C4_Witness ==
    /\ last.op = "HeaderLines::drop"
    /\ \A i \in DOMAIN Suffix : Suffix[i].res = Err
    /\ \E i \in DOMAIN ops : ops[i].by = "HeaderLine::drop" /\ ops[i].res = Err

\* C5: a caller's write through a line makes exactly one write call on the
\* sink, with the caller's buffer, and returns the sink's answer (count,
\* short count or error); a caller's flush makes exactly one flush call and
\* returns its answer.
C5_Forwarding ==
    /\ last.op = "HeaderLine::write" =>
        /\ Suffix = << [by |-> "HeaderLine::write", line |-> last.line,
                        op |-> "write", buf |-> last.buf, res |-> ret] >>
        /\ sink = last.sink \o Accepted(last.buf, ret)
    /\ last.op = "HeaderLine::flush" =>
        /\ Suffix = << [by |-> "HeaderLine::flush", line |-> last.line,
                        op |-> "flush", buf |-> <<>>, res |-> ret] >>
        /\ sink = last.sink

\* A caller's write that the sink refused, after one it took only in part.
C5_Witness ==
    /\ last.op = "HeaderLine::write"
    /\ ret = Err
    /\ \E i \in DOMAIN ops :
        /\ ops[i].by = "HeaderLine::write"
        /\ ops[i].res.kind = "Ok"
        /\ ops[i].res.n < Len(ops[i].buf)

\* C6: after the block has ended, the body bytes the caller writes directly
\* follow the block's terminating CRLF at once: the sink holds what it held
\* before the block's exit, CRLF, and the body.
C6_BodyAfterHeader ==
    last.op = "body" =>
        sink = SinkAfter(BlankLineIndex - 1) \o CRLF \o body

\* C7: at most one line is alive at any time, a live line is the newest
\* one, no line is alive once the block has ended, and the sink sees the
\* calls of line i (its terminator included) before any call of line i+1.
C7_OneLiveLine ==
    /\ Cardinality(LiveLines) <= 1
    /\ \A id \in LiveLines : id = Len(lines)
    /\ block = "dropped" => LiveLines = {}
    /\ \A i, j \in DOMAIN ops :
        (i < j /\ ops[i].line > 0 /\ ops[j].line > 0) => ops[i].line <= ops[j].line

\* A second line of the block, written into, after the first has ended.
C7_Witness ==
    /\ Len(BlockLines) = 2
    /\ \E i, j \in DOMAIN ops :
        /\ ops[i].line = 1 /\ ops[i].by = "HeaderLine::drop"
        /\ ops[j].line = 2 /\ ops[j].by = "HeaderLine::write"

\* C8: the block's exit makes exactly two calls on the sink, a write of the
\* bare CRLF and then a flush, the flush also when the write failed; these
\* are the only calls the block's exit ever makes.
C8_BlockExitSequence ==
    /\ last.op = "HeaderLines::drop" =>
        /\ Len(Suffix) = 2
        /\ Suffix[1].op = "write" /\ Suffix[1].buf = CRLF
        /\ Suffix[2].op = "flush"
    /\ Cardinality({ i \in DOMAIN ops : ops[i].by = "HeaderLines::drop" })
            = IF block = "dropped" THEN 2 ELSE 0

\* The blank line's write failed, the flush was made, and the caller has
\* written body bytes since.
C8_Witness ==
    /\ last.op = "body"
    /\ body # <<>>
    /\ ops[BlankLineIndex].res = Err
    /\ ops[BlankLineIndex + 1].op = "flush"

C10_FlushOrigins ==
    /\ last.op \in {"HeaderLines::new", "HeaderLines::line"} =>
        Suffix = <<>> /\ sink = last.sink
    /\ last.op = "HeaderLine::drop" =>
        \A i \in DOMAIN Suffix : Suffix[i].op = "write"
    /\ \A i \in DOMAIN ops :
        ops[i].op = "flush" => ops[i].by \in {"HeaderLine::flush", "HeaderLines::drop"}

\* The sink has seen a caller's flush and a line's terminator write, and the last
\* step was a line() that followed an ended line.
C10_Witness ==
    /\ last.op = "HeaderLines::line"
    /\ last.line = 2
    /\ \E i \in DOMAIN ops : ops[i].by = "HeaderLine::flush"
    /\ \E i \in DOMAIN ops : ops[i].by = "HeaderLine::drop"

====
